---- MODULE Spec2Model ----
(***************************************************************************)
(* throttle-async-function: the wrapper returned by the factory of         *)
(* src/unnamed/part_001 (lines 1-76, the latest version of main.js).       *)
(*                                                                         *)
(* The wrapper keeps two lru-cache tables (promiseCache, resultCache), the *)
(* hit-rate counters, and a set of suspended async functions: invocations  *)
(* of throttled() waiting in `await isRejected(...)`, and attempts         *)
(* (callWithRetry) waiting for the wrapped function or for the retry       *)
(* delay, and the recurring timer of reportHitRate.  Every action below is *)
(* one run-to-suspension step of the single-threaded event loop.  The      *)
(* wrapper calls code that is not its own, asyncFunction (line 36) and     *)
(* hitRateReportHandler (line 23); that code may call throttled() before   *)
(* it returns, and such a call runs inside the step that made it.          *)
(*                                                                         *)
(* returned, reports, lastExecution, window, cleared and invocations, and  *)
(* the fields joined, afterFailure, afterClear, window, dispatched, hit    *)
(* and age of a call, and the fields calls, cause, born and wrote of an    *)
(* attempt, record what happened; no action reads them to decide what the  *)
(* wrapper does.  The callers read waiting and attempts, and the model     *)
(* reads invocations, to stay within the bounds they are followed in.      *)
(***************************************************************************)
EXTENDS Integers, Sequences, FiniteSets

VARIABLES
    now,                \* Date.now(), in abstract milliseconds
    options,            \* the options the factory was called with
    asyncFunction,      \* the function the factory was called with: what it does
                        \* when the wrapper calls it
    arguments,          \* the argument lists the callers call throttled() with
    keys,               \* the cache keys of these argument lists (line 55)
    bound,              \* how far the clock, the callers and the attempts are followed
    promiseCache,       \* LRU list of hits [key, value, now], most recent first;
                        \* value is the id of a callWithRetry promise
    resultCache,        \* LRU list of hits [key, value, now]
    attempts,           \* the promises callWithRetry returned, by id
    waiting,            \* the suspended calls of throttled()
    returned,           \* the calls of throttled() that settled in the last step
    hitRateStatistics,  \* [totalCalls, gotThroughCalls]
    reports,            \* the snapshots hitRateReportHandler was called with
    reportDue,          \* when the timer of reportHitRate is due
    lastExecution,      \* per key, how the latest call of asyncFunction that ended, ended
    window,             \* the calls of throttled() started since the last report, and
                        \* those of them that dispatched an attempt
    cleared,            \* the keys clearCache() removed that were not called since
    invocations         \* the number of calls of throttled() made so far

vars == <<now, options, asyncFunction, arguments, keys, bound, promiseCache, resultCache,
          attempts, waiting, returned, hitRateStatistics, reports, reportDue, lastExecution,
          window, cleared, invocations>>

\* what is fixed when the wrapper is made
environment == <<options, asyncFunction, arguments, keys, bound>>

----------------------------------------------------------------------------
(* Bounds of the model *)

MaxTime == 3
MaxInvocations == 3
MaxAttempts == 3

\* the clock is followed up to time, the callers make up to invocations calls
\* of throttled() and keep at most outstanding of them unsettled at once, and
\* up to attempts attempts are dispatched
Bounded(time, calls, dispatches, outstanding) ==
    [ time |-> time, invocations |-> calls, attempts |-> dispatches,
      outstanding |-> outstanding ]

Values == {0, 1}        \* what asyncFunction resolves with; 0 is a falsy value

(* The options of the factory.  The two periods are fixed, with            *)
(* cacheMaxAge larger than cacheRefreshPeriod as the README asks; the      *)
(* other options are chosen when the wrapper is made.                      *)

cacheRefreshPeriod == 1
cacheMaxAge == 2
Infinity == 1000

RetryOptions == [ retryCount : {0, 1}, retryDelay : {1} ]

\* hitRateReportHandler is the default, which does nothing, or a handler that
\* may call throttled()
Configured(max, period, o) ==
    [ maxCachedItems |-> max, hitRateReportPeriod |-> period,
      hitRateReportHandler |-> "default",
      retryCount |-> o.retryCount, retryDelay |-> o.retryDelay ]

\* { totalCalls: 0, gotThroughCalls: 0 }
NoCalls == [totalCalls |-> 0, gotThroughCalls |-> 0]

NoPromise == 0

----------------------------------------------------------------------------
(* lru-cache (maxAge, max): a list of hits, most recently used first *)

\* (a hit that is kept one unit too long)
isStale_Late(hit, maxAge, t) == t - hit.now > maxAge + 1

isStale(hit, maxAge, t) == t - hit.now > maxAge

Index(cache, key) ==
    IF \E i \in 1 .. Len(cache) : cache[i].key = key
    THEN CHOOSE i \in 1 .. Len(cache) : cache[i].key = key
    ELSE 0

Without(cache, i) == SubSeq(cache, 1, i - 1) \o SubSeq(cache, i + 1, Len(cache))

\* (a trim that keeps one hit fewer than max)
trim_OneFewer(cache, max) ==
    IF Len(cache) > max - 1 THEN SubSeq(cache, 1, max - 1) ELSE cache

\* (a cache that is never trimmed)
trim_Off(cache, max) == cache

trim(cache, max) ==
    IF Len(cache) > max THEN SubSeq(cache, 1, max) ELSE cache

\* (a has that forgets the age of the hit)
has_NoExpiry(cache, key, maxAge, t) == Index(cache, key) # 0

\* cache.has(key): present and not stale; changes nothing
has(cache, key, maxAge, t) ==
    LET i == Index(cache, key)
    IN  i # 0 /\ ~isStale(cache[i], maxAge, t)

\* the hit cache.get(key) returns; only used where has(...) is TRUE
peek(cache, key) == cache[Index(cache, key)]

\* (a get that deletes the hit it returns)
get_Delete(cache, key, maxAge, t) ==
    IF Index(cache, key) = 0 THEN cache ELSE Without(cache, Index(cache, key))

\* (a get that leaves the hit it returns where it is in the list)
get_NoTouch(cache, key, maxAge, t) ==
    LET i == Index(cache, key)
    IN  IF i = 0 THEN cache
        ELSE IF isStale(cache[i], maxAge, t) THEN Without(cache, i)
        ELSE cache

\* the cache after cache.get(key): a stale hit is deleted, a live one is
\* moved to the front
get(cache, key, maxAge, t) ==
    LET i == Index(cache, key)
    IN  IF i = 0 THEN cache
        ELSE IF isStale(cache[i], maxAge, t) THEN Without(cache, i)
        ELSE <<cache[i]>> \o Without(cache, i)

\* the cache after cache.set(key, ...): hit carries the new value and now
set(cache, hit, max) ==
    LET i == Index(cache, hit.key)
    IN  IF i = 0 THEN trim(<<hit>> \o cache, max)
        ELSE trim(<<hit>> \o Without(cache, i), max)

reset == << >>

----------------------------------------------------------------------------
(* The cache key, line 55: md5 of json-stable-stringify of the argument list. *)
(* An argument is a number or an object with number fields; an object lists   *)
(* its fields as <<name, value>> in the order they were added.  A field name  *)
(* is one character and a number one digit; a string is the sequence of its   *)
(* character codes.                                                           *)

Number(n) == [type |-> "number", value |-> n, fields |-> << >>]

Object(pairs) == [type |-> "object", value |-> 0, fields |-> pairs]

\* (fields left in the order they were added, as JSON.stringify leaves them)
sorted_InsertionOrder(pairs) == pairs

\* Object.keys(node).sort(): the fields by name
RECURSIVE sorted(_)
sorted(pairs) ==
    IF pairs = << >> THEN << >>
    ELSE LET least == CHOOSE i \in 1 .. Len(pairs) :
                          \A j \in 1 .. Len(pairs) : pairs[i][1] <= pairs[j][1]
         IN  <<pairs[least]>> \o sorted(Without(pairs, least))

\* out.join(','): 44 is the comma
RECURSIVE join(_)
join(parts) ==
    IF parts = << >> THEN << >>
    ELSE IF Len(parts) = 1 THEN parts[1]
    ELSE parts[1] \o <<44>> \o join(Tail(parts))

\* a digit as a character
Digit(n) == 48 + n

\* a number as its digit; an object as {"name":value,...} with the fields sorted
stringifyValue(node) ==
    IF node.type = "number" THEN <<Digit(node.value)>>
    ELSE LET pairs == sorted(node.fields)
         IN  <<123>>
             \o join([ i \in 1 .. Len(pairs) |->
                          <<34, pairs[i][1], 34, 58, Digit(pairs[i][2])>> ])
             \o <<125>>

\* stringify(args): the array [value,...], in the order of the arguments
stringify(args) ==
    <<91>> \o join([ i \in 1 .. Len(args) |-> stringifyValue(args[i]) ]) \o <<93>>

\* hash.update(string), one character after the other
RECURSIVE update(_, _)
update(hash, string) ==
    IF string = << >> THEN hash
    ELSE update((hash * 31 + Head(string)) % 65521, Tail(string))

\* the digest: a number that depends on the characters of the string and on
\* nothing else.  A 16-bit polynomial checksum stands for the 128 bits of md5.
md5(string) == update(0, string)

cacheKey(args) == md5(stringify(args))

\* the cache key of the call throttled(n)
Key(n) == cacheKey(<<Number(n)>>)

\* the argument lists of one argument: a number, or an object with the fields
\* a (97) and b (98) or one of them, added in either order
Objects ==
    { Object(pairs) :
          pairs \in { p \in UNION { [1 .. n -> {97, 98} \X {1, 2}] : n \in 1 .. 2 } :
                          \A i, j \in 1 .. Len(p) : i # j => p[i][1] # p[j][1] } }

ArgumentLists == { <<x>> : x \in { Number(n) : n \in {1, 2} } \cup Objects }

----------------------------------------------------------------------------
(* The state after construction *)

(* The wrapped function, as the wrapper sees it: per cache key of the      *)
(* argument lists it is called with, the values its promise may resolve     *)
(* with (it may always reject, or throw), and whether it calls throttled()  *)
(* before it returns its promise.                                           *)

\* any of Values, whatever the arguments
AnyValue(args) == Values

\* the value of the first argument, a number
FirstArgument(args) == { args[1].value }

WrappedFunction(arglists, reentrant, echoes) ==
    [ reentrant |-> reentrant,
      resolves |-> [ key \in { cacheKey(args) : args \in arglists } |->
                       UNION { IF echoes THEN FirstArgument(args) ELSE AnyValue(args) :
                                   args \in { a \in arglists : cacheKey(a) = key } } ] ]

\* a wrapped function that resolves with either of Values and calls nothing
Plain(arglists) == WrappedFunction(arglists, FALSE, FALSE)

\* a wrapped function that resolves with the number it was called with and
\* calls nothing
Echo(arglists) == WrappedFunction(arglists, FALSE, TRUE)

\* a wrapped function that may call throttled() before it returns its promise
Reentrant(arglists) == WrappedFunction(arglists, TRUE, FALSE)

Fresh ==
    /\ now = 0
    /\ promiseCache = << >>
    /\ resultCache = << >>
    /\ attempts = << >>
    /\ waiting = << >>
    /\ returned = {}
    /\ hitRateStatistics = NoCalls
    /\ reports = << >>
    /\ window = [started |-> 0, passed |-> 0]
    /\ cleared = {}
    /\ invocations = 0
    /\ keys = { cacheKey(args) : args \in arguments }
    /\ lastExecution = [key \in keys |-> "none"]
    /\ reportDue = options.hitRateReportPeriod

\* maxCachedItems left at its default: the keys do not interact, one is followed;
\* a report every second unit of time
Init ==
    /\ options \in { Configured(Infinity, 2, o) : o \in RetryOptions }
    /\ arguments = { <<Number(1)>> }
    /\ asyncFunction = Plain(arguments)
    /\ bound = Bounded(MaxTime, MaxInvocations, MaxAttempts, MaxInvocations)
    /\ Fresh

\* maxCachedItems = 1 and two keys, which take each other's place in the
\* tables: the tables are full and evict, and there is one entry to evict.
\* Which of several entries is evicted is followed from InitLRU and InitKeys.
\* One retry; one report, when the clock has reached MaxTime
InitPair ==
    /\ options \in { Configured(1, MaxTime, o) : o \in { r \in RetryOptions : r.retryCount = 1 } }
    /\ arguments = { <<Number(1)>>, <<Number(2)>> }
    /\ asyncFunction = Plain(arguments)
    /\ bound = Bounded(MaxTime, MaxInvocations, MaxAttempts, MaxInvocations)
    /\ Fresh

\* maxCachedItems = 2 and three keys: a full table holds two entries, of which
\* the less recently used one is evicted.  The callers make one call after the
\* other: five calls and four attempts, so that two keys are called, the first
\* is called again, the third evicts the second and the second is called
\* again; the wrapped function resolves with its argument.  The clock
\* ticks once: no entry expires.  One retry; one report.
InitLRU ==
    /\ options \in { Configured(2, 1, o) : o \in { r \in RetryOptions : r.retryCount = 1 } }
    /\ arguments = { <<Number(1)>>, <<Number(2)>>, <<Number(3)>> }
    /\ asyncFunction = Echo(arguments)
    /\ bound = Bounded(1, MaxInvocations + 2, MaxAttempts + 1, 1)
    /\ Fresh

\* maxCachedItems = 2 and three keys, as in InitLRU, with callers that keep two
\* calls unsettled at once: the attempts of two keys are in progress together.
\* Four calls and three attempts: two keys are called, one of them again, and
\* the third key evicts.
InitKeys ==
    /\ options \in { Configured(2, 1, o) : o \in { r \in RetryOptions : r.retryCount = 1 } }
    /\ arguments = { <<Number(1)>>, <<Number(2)>>, <<Number(3)>> }
    /\ asyncFunction = Echo(arguments)
    /\ bound = Bounded(1, MaxInvocations + 1, MaxAttempts, 2)
    /\ Fresh

\* a report every unit of time, so that several reports are made; one retry
InitReport ==
    /\ options \in { Configured(Infinity, 1, o) : o \in { r \in RetryOptions : r.retryCount = 1 } }
    /\ arguments = { <<Number(1)>> }
    /\ asyncFunction = Plain(arguments)
    /\ bound = Bounded(MaxTime, MaxInvocations, MaxAttempts, MaxInvocations)
    /\ Fresh

\* as InitReport, with a handler and a wrapped function that may call
\* throttled(); two reports
InitUserCode ==
    /\ options \in { [ Configured(Infinity, 1, o) EXCEPT !.hitRateReportHandler = "calling" ] :
                        o \in { r \in RetryOptions : r.retryCount = 1 } }
    /\ arguments = { <<Number(1)>> }
    /\ asyncFunction = Reentrant(arguments)
    /\ bound = Bounded(MaxTime - 1, MaxInvocations, MaxAttempts, MaxInvocations)
    /\ Fresh

\* the fields of an object, in whatever order they were added
FieldsOf(node) == { node.fields[i] : i \in 1 .. Len(node.fields) }

\* argument lists that are deeply equal up to the order of object fields
EqualUpToOrder(A, B) ==
    /\ Len(A) = Len(B)
    /\ \A i \in 1 .. Len(A) :
           /\ A[i].type = B[i].type
           /\ A[i].value = B[i].value
           /\ FieldsOf(A[i]) = FieldsOf(B[i])

\* the callers use two argument lists that differ in the order in which the
\* fields of an object were added, and in nothing else; one retry
InitArgs ==
    /\ options \in { Configured(Infinity, 2, o) : o \in { r \in RetryOptions : r.retryCount = 1 } }
    /\ arguments \in { {pair[1], pair[2]} :
                          pair \in { p \in ArgumentLists \X ArgumentLists :
                                        p[1] # p[2] /\ EqualUpToOrder(p[1], p[2]) } }
    /\ asyncFunction = Plain(arguments)
    /\ bound = Bounded(MaxTime, MaxInvocations, MaxAttempts, MaxInvocations)
    /\ Fresh

----------------------------------------------------------------------------
(* callWithRetry *)

Settled(a) == a.state \in {"resolved", "rejected"}

\* A settled promise that no table entry and no suspended call refers to can no
\* longer be read: its state is forgotten.
Referenced(id, cache, invs) ==
    \/ \E i \in 1 .. Len(cache) : cache[i].value = id
    \/ \E i \in 1 .. Len(invs) : invs[i].promise = id

collect(atts, cache, invs) ==
    [ id \in 1 .. Len(atts) |->
        IF Settled(atts[id]) /\ ~Referenced(id, cache, invs)
        THEN [ atts[id] EXCEPT !.state = "collected", !.value = 0, !.born = 0,
                               !.retries = 0, !.calls = 0, !.wrote = FALSE ]
        ELSE atts[id] ]

\* callWithRetry(cacheKey, args, retries) up to `await asyncFunction(...)`:
\* the wrapped function has been called and the promise is pending.
\* calls counts the calls of asyncFunction this attempt made; cause is the
\* rejected promise the dispatching call of throttled() found, if any; wrote
\* tells that the attempt stored a value of its own in the result table.
callWithRetry(key, retries, cause) ==
    [ key |-> key, state |-> "calling", retries |-> retries, calls |-> 1,
      value |-> 0, born |-> 0, cause |-> cause, wrote |-> FALSE ]

\* (a recursive call that passes retryCount on unchanged)
recurse_SameCount(a) == [ a EXCEPT !.state = "calling", !.calls = @ + 1 ]

\* line 46, `return callWithRetry(cacheKey, args, retryCount - 1)`
recurse(a) == [ a EXCEPT !.state = "calling", !.retries = @ - 1, !.calls = @ + 1 ]

\* try branch: asyncFunction resolved with value v
resolved(a, v) ==
    [ a EXCEPT !.state = "resolved", !.value = v, !.born = now, !.wrote = TRUE ]

\* catch branch, `return cachedResult`
fallback(a, hit) == [ a EXCEPT !.state = "resolved", !.value = hit.value, !.born = hit.now ]

\* catch branch, retryCount > 0: wait(retryDelay), or the recursive call at once
retry(a) ==
    IF options.retryDelay # 0
    THEN [ a EXCEPT !.state = "waiting" ]
    ELSE recurse(a)

\* catch branch, `throw error`
rejected(a) == [ a EXCEPT !.state = "rejected" ]

\* (a catch block that tests the cached value for truthiness)
catch_Truthy(a, cache) ==
    IF has(cache, a.key, cacheMaxAge, now) /\ peek(cache, a.key).value # 0
    THEN fallback(a, peek(cache, a.key))
    ELSE IF a.retries > 0 THEN retry(a)
    ELSE rejected(a)

\* (a catch block that throws without retrying)
catch_NoRetry(a, cache) ==
    IF has(cache, a.key, cacheMaxAge, now) THEN fallback(a, peek(cache, a.key))
    ELSE rejected(a)

\* (a catch block that retries before it looks at the result table)
catch_RetryFirst(a, cache) ==
    IF a.retries > 0 THEN retry(a)
    ELSE IF has(cache, a.key, cacheMaxAge, now) THEN fallback(a, peek(cache, a.key))
    ELSE rejected(a)

\* lines 39-49: the catch block, given the attempt and the result table
catch(a, cache) ==
    IF has(cache, a.key, cacheMaxAge, now) THEN fallback(a, peek(cache, a.key))
    ELSE IF a.retries > 0 THEN retry(a)
    ELSE rejected(a)

\* a call of throttled() that returned the promise of attempt a, once a settled
outcome(inv, a) ==
    [ inv EXCEPT !.pc = IF a.state = "resolved" THEN "returned" ELSE "failed",
                 !.value = a.value, !.age = now - a.born ]

Awaits(inv, id) == inv.pc = "pending" /\ inv.promise = id

\* (a settled promise that never runs the continuations of the calls awaiting it)
StillWaiting_All(id) == waiting

\* the suspended calls without those that await the promise of attempt id
StillWaiting(id) == SelectSeq(waiting, LAMBDA inv : ~Awaits(inv, id))

\* the calls that await the promise of attempt id, settled with a
SettledBy(id, a) ==
    { outcome(waiting[i], a) : i \in { j \in 1 .. Len(waiting) : Awaits(waiting[j], id) } }

\* attempt id goes on as a; the calls awaiting it settle when it does
Continue(id, a) ==
    /\ waiting' = IF Settled(a) THEN StillWaiting(id) ELSE waiting
    /\ returned' = IF Settled(a) THEN SettledBy(id, a) ELSE {}
    /\ attempts' = [collect(attempts, promiseCache', waiting') EXCEPT ![id] = a]

\* what the promise of the wrapped function may resolve with, called for key
Resolves(key) == asyncFunction.resolves[key]

\* (a success that leaves alone the value a more recently dispatched attempt stored)
ProducerResolve_NewestWins(id, v) ==
    /\ attempts[id].state = "calling"
    /\ resultCache' =
           IF \E newer \in id + 1 .. Len(attempts) :
                  attempts[newer].key = attempts[id].key /\ attempts[newer].wrote
           THEN resultCache
           ELSE set(resultCache, [key |-> attempts[id].key, value |-> v, now |-> now],
                    options.maxCachedItems)
    /\ lastExecution' = [lastExecution EXCEPT ![attempts[id].key] = "succeeded"]
    /\ UNCHANGED <<now, environment, reportDue, promiseCache, hitRateStatistics, reports,
                   window, cleared, invocations>>
    /\ Continue(id, resolved(attempts[id], v))

\* lines 36-38: the call of asyncFunction that attempt id awaits resolves with v
ProducerResolve(id, v) ==
    /\ attempts[id].state = "calling"
    /\ resultCache' = set(resultCache, [key |-> attempts[id].key, value |-> v, now |-> now],
                          options.maxCachedItems)
    /\ lastExecution' = [lastExecution EXCEPT ![attempts[id].key] = "succeeded"]
    /\ UNCHANGED <<now, environment, reportDue, promiseCache, hitRateStatistics, reports,
                   window, cleared, invocations>>
    /\ Continue(id, resolved(attempts[id], v))

\* lines 39-49: the call of asyncFunction that attempt id awaits rejects, or
\* asyncFunction threw
ProducerReject(id) ==
    /\ attempts[id].state = "calling"
    /\ resultCache' = get(resultCache, attempts[id].key, cacheMaxAge, now)
    /\ lastExecution' = [lastExecution EXCEPT ![attempts[id].key] = "failed"]
    /\ UNCHANGED <<now, environment, reportDue, promiseCache, hitRateStatistics, reports,
                   window, cleared, invocations>>
    /\ Continue(id, catch(attempts[id], resultCache))

----------------------------------------------------------------------------
(* throttled *)

\* (a return that prefers the promise of the refresh it has just dispatched)
return_AwaitRefresh(inv, atts, cache) ==
    IF inv.dispatched = NoPromise /\ has(cache, inv.key, cacheMaxAge, now)
    THEN [ inv EXCEPT !.pc = "returned", !.hit = TRUE,
                      !.value = peek(cache, inv.key).value,
                      !.age = now - peek(cache, inv.key).now ]
    ELSE IF Settled(atts[inv.promise]) THEN outcome(inv, atts[inv.promise])
    ELSE [ inv EXCEPT !.pc = "pending" ]

\* (a return that hands out what line 57 found, not the promise dispatched at
\* line 60: nothing, for the call that dispatched the attempt)
return_FoundPromise(inv, atts, cache) ==
    IF has(cache, inv.key, cacheMaxAge, now)
    THEN [ inv EXCEPT !.pc = "returned", !.hit = TRUE,
                      !.value = peek(cache, inv.key).value,
                      !.age = now - peek(cache, inv.key).now ]
    ELSE IF inv.dispatched # NoPromise THEN [ inv EXCEPT !.pc = "returned" ]
    ELSE IF Settled(atts[inv.promise]) THEN outcome(inv, atts[inv.promise])
    ELSE [ inv EXCEPT !.pc = "pending" ]

\* (a return that reads the most recently used result, whatever its key)
return_AnyKey(inv, atts, cache) ==
    IF cache # << >> /\ ~isStale(cache[1], cacheMaxAge, now)
    THEN [ inv EXCEPT !.pc = "returned", !.hit = TRUE,
                      !.value = cache[1].value,
                      !.age = now - cache[1].now ]
    ELSE IF Settled(atts[inv.promise]) THEN outcome(inv, atts[inv.promise])
    ELSE [ inv EXCEPT !.pc = "pending" ]

\* lines 63-64: `return resultCache.has(cacheKey) ? cachedResult : cachedPromise`
\* inv is the call, atts the attempts, cache the result table
return(inv, atts, cache) ==
    IF has(cache, inv.key, cacheMaxAge, now)
    THEN [ inv EXCEPT !.pc = "returned", !.hit = TRUE,
                      !.value = peek(cache, inv.key).value,
                      !.age = now - peek(cache, inv.key).now ]
    ELSE IF Settled(atts[inv.promise]) THEN outcome(inv, atts[inv.promise])
    ELSE [ inv EXCEPT !.pc = "pending" ]

\* among atts, an attempt for key has a call of asyncFunction or a retry still
\* to come
InProgressAmong(atts, key) ==
    \E id \in 1 .. Len(atts) :
        atts[id].key = key /\ atts[id].state \in {"calling", "waiting"}

\* an attempt for key has a call of asyncFunction or a retry still to come
InProgress(key) == InProgressAmong(attempts, key)

\* the calls of throttled() counted in a sequence of snapshots
RECURSIVE Total(_)
Total(snapshots) ==
    IF snapshots = << >> THEN 0
    ELSE Head(snapshots).totalCalls + Total(Tail(snapshots))

\* the calls of throttled() counted so far
Invoked == hitRateStatistics.totalCalls + Total(reports)

\* What the code of lines 22-26 and 34-65 reads and writes, as a step finds
\* it.  The code runs on such a store and leaves another: a call of
\* throttled() made by asyncFunction or by hitRateReportHandler runs on the
\* store the calling code has left so far, and the calling code goes on with
\* the store that call leaves.  reported is the number of reports made.
Store ==
    [ promiseCache |-> promiseCache, resultCache |-> resultCache, attempts |-> attempts,
      waiting |-> waiting, returned |-> {}, hitRateStatistics |-> hitRateStatistics,
      window |-> window, cleared |-> cleared, invocations |-> invocations,
      reported |-> Len(reports) ]

\* the store st is what the step leaves; a settled promise nothing refers to
\* any more is forgotten
Become(st) ==
    /\ promiseCache' = st.promiseCache
    /\ resultCache' = st.resultCache
    /\ waiting' = st.waiting
    /\ returned' = st.returned
    /\ window' = st.window
    /\ cleared' = st.cleared
    /\ invocations' = st.invocations
    /\ attempts' = collect(st.attempts, st.promiseCache, st.waiting)

\* a call of throttled() for key that found promise p in the pending table.
\* joined, afterFailure, afterClear and window record what the call found when
\* it started: an outstanding attempt; a failed latest execution and nothing
\* in progress; a key not called since clearCache() removed it; the number of
\* reports made so far.
NewInvocation(st, key, p) ==
    [ key |-> key, pc |-> "isRejected", promise |-> p, dispatched |-> NoPromise,
      joined |-> p # NoPromise /\ ~Settled(st.attempts[p]),
      afterFailure |-> lastExecution[key] = "failed" /\ ~InProgressAmong(st.attempts, key),
      afterClear |-> key \in st.cleared,
      window |-> st.reported,
      hit |-> FALSE, value |-> 0, age |-> 0 ]

\* lines 63-64: the call inv reads the result table and returns
Finish(st, inv) ==
    LET done == return(inv, st.attempts, st.resultCache)
    IN  [ st EXCEPT !.resultCache = get(@, inv.key, cacheMaxAge, now),
                    !.waiting = IF done.pc = "pending" THEN Append(@, done) ELSE @,
                    !.returned = IF done.pc = "pending" THEN @ ELSE @ \cup {done} ]

RECURSIVE throttled(_, _), Dispatch(_, _), RunUserCode(_, _)

\* the keys that have an entry in the table
Keys(cache) == { cache[i].key : i \in 1 .. Len(cache) }

\* lines 66-69 on the store st: both tables are reset
Cleared(st) ==
    [ st EXCEPT !.promiseCache = reset,
                !.resultCache = reset,
                !.cleared = @ \cup Keys(st.promiseCache) \cup Keys(st.resultCache) ]

\* The stores that code which is not the wrapper's may leave when it is called
\* on st: it calls nothing, or (calls) before it returns it calls
\* throttled.clearCache(), or throttled() once with one of the callers'
\* argument lists, or both, clearCache() before or after throttled().
RunUserCode(calls, st) ==
    IF calls
    THEN LET first == { st, Cleared(st) }
             second == first \cup UNION { throttled(s, key) : s \in first, key \in keys }
         IN  second \cup { Cleared(s) : s \in second }
    ELSE { st }

\* lines 59-64, the stores they may leave: the call inv counts itself as got
\* through and calls callWithRetry, which calls asyncFunction (line 36) and
\* returns the promise of a new attempt when asyncFunction has returned; the
\* promise is stored as the pending entry, then the result table is read.
\* No attempt is followed beyond bound.attempts.
Dispatch(st, inv) ==
    IF Len(st.attempts) >= bound.attempts THEN {}
    ELSE LET id == Len(st.attempts) + 1
             called ==
                 [ st EXCEPT
                     !.hitRateStatistics.gotThroughCalls = @ + 1,
                     !.window.passed = IF inv.window = st.reported THEN @ + 1 ELSE @,
                     !.attempts = Append(@, callWithRetry(inv.key, options.retryCount,
                                                          inv.promise)) ]
         IN  { Finish(stored, [ inv EXCEPT !.promise = id, !.dispatched = id ]) :
                   stored \in { [ s EXCEPT !.promiseCache =
                                               set(@, [key |-> inv.key, value |-> id, now |-> now],
                                                   options.maxCachedItems) ] :
                                    s \in RunUserCode(asyncFunction.reentrant, called) } }

\* lines 54-64 up to the first suspension, the stores they may leave: the call
\* is counted, the pending table is read, and without a live pending entry
\* lines 59-64 follow at once; with one, the call is suspended in
\* `await isRejected(cachedPromise)`.  No call is followed beyond
\* bound.invocations.
throttled(st, key) ==
    IF st.invocations >= bound.invocations THEN {}
    ELSE LET live == has(st.promiseCache, key, cacheRefreshPeriod, now)
             inv == NewInvocation(st, key,
                                  IF live THEN peek(st.promiseCache, key).value
                                  ELSE NoPromise)
             started ==
                 [ st EXCEPT
                     !.hitRateStatistics.totalCalls = @ + 1,
                     !.window.started = @ + 1,
                     !.invocations = @ + 1,
                     !.cleared = @ \ {key},
                     !.promiseCache = get(@, key, cacheRefreshPeriod, now) ]
         IN  IF live THEN { [ started EXCEPT !.waiting = Append(@, inv) ] }
             ELSE Dispatch(started, inv)

\* the timer of wait(retryDelay) fires: the recursive callWithRetry call, which
\* calls asyncFunction.  It is independent of the setTimeout(..., 0) of an
\* isRejected still pending and may fire before it.
RetryFire(id) ==
    /\ attempts[id].state = "waiting"
    /\ \E st \in RunUserCode(asyncFunction.reentrant,
                             [ Store EXCEPT !.attempts[id] = recurse(attempts[id]) ]) :
           /\ Become(st)
           /\ hitRateStatistics' = st.hitRateStatistics
    /\ UNCHANGED <<now, environment, reportDue, reports, lastExecution>>

\* the key was called before: an attempt was dispatched for it
Called(key) == \E id \in 1 .. Len(attempts) : attempts[id].key = key

\* The callers may call throttled() for key: they keep fewer than
\* bound.outstanding calls unsettled, and call a key for the first time only
\* when the keys before it have been called (the keys are interchangeable, so
\* the order of their first use is fixed).
Callers(key) ==
    /\ Len(waiting) < bound.outstanding
    /\ \A other \in keys : other < key => Called(other)

\* throttled(...args) called by the callers, no live pending entry for the
\* key: lines 54-64 run without a suspension
InvokeMiss(key) ==
    /\ Callers(key)
    /\ ~has(promiseCache, key, cacheRefreshPeriod, now)
    /\ \E st \in throttled(Store, key) :
           /\ Become(st)
           /\ hitRateStatistics' = st.hitRateStatistics
    /\ UNCHANGED <<now, environment, reportDue, reports, lastExecution>>

\* throttled(...args) called by the callers, a live pending entry: lines 54-58
\* up to `await isRejected(cachedPromise)`
InvokePending(key) ==
    /\ Callers(key)
    /\ has(promiseCache, key, cacheRefreshPeriod, now)
    /\ \E st \in throttled(Store, key) :
           /\ Become(st)
           /\ hitRateStatistics' = st.hitRateStatistics
    /\ UNCHANGED <<now, environment, reportDue, reports, lastExecution>>

\* the store as the suspended call i finds it when it goes on
Resumed(i) == [ Store EXCEPT !.waiting = Without(waiting, i) ]

\* (an isRejected whose timer always wins)
isRejected_Never(a) == FALSE

\* lines 73-76, what isRejected resolves with once the race between the
\* promise's catch handler and setTimeout(..., 0) is over: a is the attempt
\* whose promise was passed
isRejected(a) == a.state = "rejected"

\* isRejected(cachedPromise) resolves true: the promise's catch handler ran.
\* Lines 59-64 follow.
IsRejectedTrue(i) ==
    /\ waiting[i].pc = "isRejected"
    /\ isRejected(attempts[waiting[i].promise])
    /\ \E st \in UNION { Dispatch(from, waiting[i]) : from \in { Resumed(i) } } :
           /\ Become(st)
           /\ hitRateStatistics' = st.hitRateStatistics
    /\ UNCHANGED <<now, environment, reportDue, reports, lastExecution>>

\* isRejected(cachedPromise) resolves false: its setTimeout(..., 0) fired before
\* any rejection.  Lines 63-64 follow.
IsRejectedFalse(i) ==
    /\ waiting[i].pc = "isRejected"
    /\ ~isRejected(attempts[waiting[i].promise])
    /\ \E st \in { Finish(from, waiting[i]) : from \in { Resumed(i) } } :
           Become(st)
    /\ UNCHANGED <<now, environment, reportDue, hitRateStatistics, reports, lastExecution>>

\* (a clearCache that also rejects the attempts in progress)
clearCache_Cancel ==
    /\ promiseCache # << >> \/ resultCache # << >>
    /\ promiseCache' = reset
    /\ resultCache' = reset
    /\ returned' = {}
    /\ attempts' = [ id \in 1 .. Len(attempts) |->
                        IF Settled(attempts[id]) \/ attempts[id].state = "collected"
                        THEN attempts[id] ELSE rejected(attempts[id]) ]
    /\ cleared' = cleared \cup Keys(promiseCache) \cup Keys(resultCache)
    /\ UNCHANGED <<now, environment, reportDue, waiting, hitRateStatistics, reports,
                   lastExecution, window, invocations>>

\* lines 66-69, called by the callers while a table holds an entry
clearCache ==
    /\ promiseCache # << >> \/ resultCache # << >>
    /\ \E st \in { Cleared(Store) } :
           Become(st)
    /\ UNCHANGED <<now, environment, reportDue, hitRateStatistics, reports, lastExecution>>

\* lines 22-26: the timer fires and the handler is called with a copy of the
\* counters (line 23); the handler runs, and what it calls runs, on the
\* counters it was given a copy of; when it has returned the counters are
\* replaced by new ones (line 24) and the timer is set again,
\* hitRateReportPeriod after this run.  The timer fires when it is due or
\* later: when the event loop gets to it.  It fires when no promise job is
\* left to run: not while a call waits for isRejected on a promise that is
\* rejected.
reportHitRate ==
    /\ now >= reportDue
    /\ \A i \in 1 .. Len(waiting) :
           waiting[i].pc = "isRejected" => ~isRejected(attempts[waiting[i].promise])
    /\ reports' = Append(reports, hitRateStatistics)
    /\ \E st \in RunUserCode(options.hitRateReportHandler = "calling",
                             [ Store EXCEPT !.window = [started |-> 0, passed |-> 0],
                                            !.reported = Len(reports) + 1 ]) :
           Become(st)
    /\ hitRateStatistics' = NoCalls
    /\ reportDue' = now + options.hitRateReportPeriod
    /\ UNCHANGED <<now, environment, lastExecution>>

\* Time passes, also while a call waits in isRejected and while a timer is
\* due: Date.now() at line 57 and at lines 63-64 may differ.
Tick ==
    /\ now < bound.time
    /\ now' = now + 1
    /\ returned' = {}
    /\ attempts' = collect(attempts, promiseCache, waiting)
    /\ UNCHANGED <<environment, reportDue, promiseCache, resultCache, waiting,
                   hitRateStatistics, reports, lastExecution, window, cleared, invocations>>

Next ==
    \/ \E key \in keys : InvokeMiss(key)
    \/ \E key \in keys : InvokePending(key)
    \/ \E i \in 1 .. Len(waiting) : IsRejectedTrue(i)
    \/ \E i \in 1 .. Len(waiting) : IsRejectedFalse(i)
    \/ \E id \in 1 .. Len(attempts) : \E v \in Resolves(attempts[id].key) : ProducerResolve(id, v)
    \/ \E id \in 1 .. Len(attempts) : ProducerReject(id)
    \/ \E id \in 1 .. Len(attempts) : RetryFire(id)
    \/ clearCache
    \/ reportHitRate
    \/ Tick

Spec == Init /\ [][Next]_vars

SpecPair == InitPair /\ [][Next]_vars

SpecLRU == InitLRU /\ [][Next]_vars

SpecKeys == InitKeys /\ [][Next]_vars

SpecReport == InitReport /\ [][Next]_vars

SpecUserCode == InitUserCode /\ [][Next]_vars

SpecArgs == InitArgs /\ [][Next]_vars

\* the call of asyncFunction that attempt id is waiting for settles
ProducerSettles(id) ==
    /\ id \in 1 .. Len(attempts)
    /\ ProducerReject(id) \/ \E v \in Resolves(attempts[id].key) : ProducerResolve(id, v)

\* the timer of wait(retryDelay) of attempt id fires
RetryTimerFires(id) == id \in 1 .. Len(attempts) /\ RetryFire(id)

\* the race of an isRejected(...) some call is suspended in is decided
IsRejectedSettles ==
    \E i \in 1 .. Len(waiting) : IsRejectedTrue(i) \/ IsRejectedFalse(i)

\* What the event loop guarantees: a timer that is due fires (the retry
\* delay, the 0 ms timer of isRejected) and the continuation of a settled
\* promise runs.  What is assumed of the wrapped function: every call of it
\* settles.  Nothing is assumed of the callers, of clearCache or of the clock.
Fairness ==
    /\ \A id \in 1 .. MaxAttempts : WF_vars(ProducerSettles(id))
    /\ \A id \in 1 .. MaxAttempts : WF_vars(RetryTimerFires(id))
    /\ WF_vars(IsRejectedSettles)

SpecLive == Init /\ [][Next]_vars /\ Fairness

----------------------------------------------------------------------------
(* Properties *)

\* every call of throttled() that is suspended or settled in the last step
Calls == { waiting[i] : i \in 1 .. Len(waiting) } \cup returned

\* C1: request coalescing.  A call of throttled() issued while the producer call
\* of its key's pending entry is outstanding causes no producer call of its own
\* (exactly one producer call serves all such calls), whether that producer call
\* succeeds or fails.
C1_Coalescing ==
    \A inv \in Calls : inv.joined => inv.dispatched = NoPromise

\* C2: the check of the pending entry and its write are one step, so the calls
\* in progress at once for a key whose pending entry was rejected dispatch one
\* new attempt between them: no two attempts replace the same rejected promise.
C2_SingleDispatch ==
    \A a, b \in 1 .. Len(attempts) :
        a # b /\ attempts[a].cause # NoPromise => attempts[a].cause # attempts[b].cause

\* C10: no call of throttled() returns a producer result that is older than
\* cacheMaxAge when the call returns.
C10_NoStaleResult ==
    \A e \in returned : e.pc = "returned" => e.age <= cacheMaxAge

----------------------------------------------------------------------------
(* What the properties below read off the tables, written from the entries' *)
(* times and not through has/get                                            *)

Present(cache, key) == \E i \in 1 .. Len(cache) : cache[i].key = key

Entry(cache, key) == cache[CHOOSE i \in 1 .. Len(cache) : cache[i].key = key]

\* an entry for key that is no older than maxAge
Unexpired(cache, key, maxAge) ==
    Present(cache, key) /\ now - Entry(cache, key).now <= maxAge

AttemptIds == 1 .. Len(attempts)

\* a call of throttled() for key runs lines 63-64 in this step
ReachesReturn(key) ==
    \/ InvokeMiss(key)
    \/ \E i \in 1 .. Len(waiting) :
           waiting[i].key = key /\ (IsRejectedTrue(i) \/ IsRejectedFalse(i))

\* every call that awaits the promise of attempt id settles in this step, with a value
AwaitersReturn(id) ==
    \A i \in 1 .. Len(waiting) :
        Awaits(waiting[i], id) =>
            [ waiting[i] EXCEPT !.pc = "returned", !.value = attempts'[id].value,
                                !.age = now - attempts'[id].born ] \in returned'

\* every call that awaits the promise of attempt id settles in this step, with the error
AwaitersFail(id) ==
    \A i \in 1 .. Len(waiting) :
        Awaits(waiting[i], id) =>
            \E e \in returned' : /\ e.pc = "failed"
                                 /\ e.promise = id
                                 /\ e.dispatched = waiting[i].dispatched

\* C3: stale-while-revalidate.  A call of throttled() that reaches its return
\* statement while the result table holds an unexpired entry for its key returns
\* the stored value in that step, without awaiting any promise, also when it
\* has just dispatched a refresh; and a producer call that succeeds leaves its
\* value as the stored one, so that later calls return the new value.
C3_StaleWhileRevalidate ==
    [][ /\ \A key \in keys :
               ReachesReturn(key) /\ Unexpired(resultCache, key, cacheMaxAge) =>
                   \E e \in returned' : /\ e.key = key
                                        /\ e.pc = "returned"
                                        /\ e.hit
                                        /\ e.value = Entry(resultCache, key).value
        /\ \A id \in AttemptIds : \A v \in Values :
               ProducerResolve(id, v) =>
                   /\ Unexpired(resultCache', attempts[id].key, cacheMaxAge)
                   /\ Entry(resultCache', attempts[id].key).value = v
                   /\ Entry(resultCache', attempts[id].key).now = now
      ]_vars

\* a call that dispatched a refresh and returned the stored value in the same step
C3_Witness ==
    \E e \in returned : /\ e.hit
                        /\ e.dispatched # NoPromise
                        /\ attempts[e.dispatched].state = "calling"

\* C4: stale-while-error.  When a producer call fails while the result table
\* holds an unexpired entry for the key, the attempt resolves to the stored
\* value (a falsy one included) and every call awaiting it returns that value;
\* none fails.
C4_StaleWhileError ==
    [][ \A id \in AttemptIds :
            ProducerReject(id) /\ Unexpired(resultCache, attempts[id].key, cacheMaxAge) =>
                /\ attempts'[id].state = "resolved"
                /\ attempts'[id].value = Entry(resultCache, attempts[id].key).value
                /\ attempts'[id].born = Entry(resultCache, attempts[id].key).now
                /\ AwaitersReturn(id)
                /\ \A e \in returned' : e.pc = "returned"
      ]_vars

\* a call that awaited the attempt it dispatched and got an older, falsy value:
\* the attempt fell back on the stored result
C4_Witness ==
    \E e \in returned : /\ e.pc = "returned"
                        /\ ~e.hit
                        /\ e.dispatched = e.promise
                        /\ e.age > 0
                        /\ e.value = 0

\* the attempt's producer call fails now, with no retry left and no unexpired result
Exhausted(id) ==
    /\ attempts[id].state = "calling"
    /\ attempts[id].retries = 0
    /\ ~Unexpired(resultCache, attempts[id].key, cacheMaxAge)

\* C5: a call of throttled() fails only in the step in which the producer call of
\* the attempt it awaits fails with no retry left and no unexpired result for
\* the key; an attempt that settles in any other way gives every call
\* awaiting it a value.
C5_FailsOnlyWhenExhausted ==
    [][ /\ \A e \in returned' :
               e.pc = "failed" =>
                   /\ e.promise \in AttemptIds
                   /\ Exhausted(e.promise)
                   /\ attempts'[e.promise].state = "rejected"
        /\ \A id \in AttemptIds :
               attempts[id].state = "calling" /\ Settled(attempts'[id]) /\ ~Exhausted(id) =>
                   AwaitersReturn(id)
      ]_vars

\* a call failed although the options allow a retry
C5_Witness ==
    \E e \in returned : e.pc = "failed" /\ options.retryCount > 0

\* C6: an attempt makes at most retryCount + 1 producer calls; it is rejected
\* only after exactly retryCount + 1 calls, and a producer call that fails with
\* no entry for the key is followed by a retry while fewer were made and by
\* the rejection once retryCount + 1 were made.
C6_RetryBound ==
    /\ [](\A id \in AttemptIds :
              /\ attempts[id].calls <= options.retryCount + 1
              /\ attempts[id].state = "rejected" =>
                     attempts[id].calls = options.retryCount + 1)
    /\ [][ \A id \in AttemptIds :
               ProducerReject(id) /\ ~Present(resultCache, attempts[id].key) =>
                   IF attempts[id].calls = options.retryCount + 1
                   THEN attempts'[id].state = "rejected" /\ AwaitersFail(id)
                   ELSE attempts'[id].state \in {"waiting", "calling"}
         ]_vars

\* with retryCount = 1: the call that dispatched the attempt fails after two
\* producer calls
C6_Witness ==
    \E e \in returned : /\ e.pc = "failed"
                        /\ e.dispatched = e.promise
                        /\ options.retryCount = 1
                        /\ attempts[e.promise].calls = 2

\* C7: a producer call that fails while an unexpired result exists ends the
\* attempt without another producer call, whatever retries remain; one that
\* fails with no unexpired result and retries left is retried: the next
\* producer call follows, at once or when the retry timer fires.
C7_NoRetryWithCache ==
    [][ /\ \A id \in AttemptIds :
               ProducerReject(id) =>
                   IF Unexpired(resultCache, attempts[id].key, cacheMaxAge)
                   THEN /\ attempts'[id].state = "resolved"
                        /\ attempts'[id].calls = attempts[id].calls
                   ELSE attempts[id].retries > 0 =>
                        \/ attempts'[id].state = "waiting"
                        \/ /\ attempts'[id].state = "calling"
                           /\ attempts'[id].calls = attempts[id].calls + 1
        /\ \A id \in AttemptIds :
               /\ attempts[id].state = "waiting" /\ attempts'[id] # attempts[id] =>
                      /\ attempts'[id].state = "calling"
                      /\ attempts'[id].calls = attempts[id].calls + 1
               /\ attempts[id].state \in {"resolved", "rejected", "collected"} =>
                      attempts'[id].state \in {attempts[id].state, "collected"}
      ]_vars

\* a call that awaited its own attempt got an older value from an attempt that
\* had a retry left: the attempt fell back instead of retrying
C7_Witness ==
    \E e \in returned : /\ e.pc = "returned"
                        /\ ~e.hit
                        /\ e.dispatched = e.promise
                        /\ e.age > 0
                        /\ attempts[e.promise].retries > 0

\* the pending entry of key belongs to an attempt that resolved
ResolvedEntry(key) ==
    /\ Present(promiseCache, key)
    /\ attempts[Entry(promiseCache, key).value].state = "resolved"

\* a call of throttled() for key starts in this step
Starts(key) == InvokeMiss(key) \/ InvokePending(key)

\* C8: cacheRefreshPeriod.  While the pending entry of a key belongs to an
\* attempt that resolved and was dispatched less than cacheRefreshPeriod ago, a
\* call for the key dispatches nothing, neither when it starts nor when it
\* goes on after isRejected; the call that starts more than cacheRefreshPeriod
\* after the dispatch dispatches exactly one attempt, with one producer call.
C8_RefreshPeriod ==
    [][ /\ \A key \in keys :
               /\ Starts(key) /\ ResolvedEntry(key)
                  /\ now - Entry(promiseCache, key).now < cacheRefreshPeriod
                  => Len(attempts') = Len(attempts)
               /\ Starts(key) /\ ResolvedEntry(key)
                  /\ now - Entry(promiseCache, key).now > cacheRefreshPeriod
                  => /\ Len(attempts') = Len(attempts) + 1
                     /\ attempts'[Len(attempts')].key = key
                     /\ attempts'[Len(attempts')].calls = 1
                     /\ hitRateStatistics'.gotThroughCalls
                            = hitRateStatistics.gotThroughCalls + 1
        /\ \A i \in 1 .. Len(waiting) :
               /\ IsRejectedTrue(i) \/ IsRejectedFalse(i)
               /\ attempts[waiting[i].promise].state = "resolved"
               => Len(attempts') = Len(attempts)
      ]_vars

\* the third call for the key dispatched the second attempt, after the refresh
\* period of the first, and was served the stored result of the first
C8_Witness ==
    /\ Invoked = 3
    /\ Len(attempts) = 2
    /\ attempts[2].state = "calling"
    /\ \E e \in returned : e.hit /\ e.dispatched = 2 /\ e.age > cacheRefreshPeriod

\* C9: a result older than cacheMaxAge is absent.  No call is served a stored
\* value older than cacheMaxAge by the read of the result table; a producer
\* call that fails with no retry left while the stored result is older than
\* cacheMaxAge rejects the attempt, and the calls awaiting it fail.
C9_ExpiredResultAbsent ==
    /\ [](\A e \in returned : e.hit => e.age <= cacheMaxAge)
    /\ [][ \A id \in AttemptIds :
               /\ ProducerReject(id)
               /\ attempts[id].retries = 0
               /\ Present(resultCache, attempts[id].key)
               /\ now - Entry(resultCache, attempts[id].key).now > cacheMaxAge
               => /\ attempts'[id].state = "rejected"
                  /\ AwaitersFail(id)
                  /\ ~Present(resultCache', attempts[id].key)
         ]_vars

\* the call dispatched the second attempt after cacheMaxAge had passed, and failed
C9_Witness ==
    /\ now > cacheMaxAge
    /\ Len(attempts) = 2
    /\ attempts[1].state = "collected"
    /\ \E e \in returned : e.pc = "failed" /\ e.dispatched = 2 /\ e.promise = 2

\* C11: a rejected pending entry is replaced.  A call of throttled() that starts
\* while the pending entry of its key is no older than cacheRefreshPeriod and
\* holds a rejected promise waits for isRejected on that promise, and goes on
\* only by dispatching a new attempt: one more producer call for the key, the
\* new promise stored as the pending entry, gotThroughCalls incremented.
C11_RedispatchAfterRejection ==
    [][ /\ \A key \in keys :
               /\ Starts(key)
               /\ Unexpired(promiseCache, key, cacheRefreshPeriod)
               /\ attempts[Entry(promiseCache, key).value].state = "rejected"
               => /\ Len(waiting') = Len(waiting) + 1
                  /\ waiting'[Len(waiting')].key = key
                  /\ waiting'[Len(waiting')].pc = "isRejected"
                  /\ waiting'[Len(waiting')].promise = Entry(promiseCache, key).value
        /\ \A i \in 1 .. Len(waiting) :
               /\ waiting[i].pc = "isRejected"
               /\ attempts[waiting[i].promise].state = "rejected"
               /\ IsRejectedTrue(i) \/ IsRejectedFalse(i)
               => /\ Len(attempts') = Len(attempts) + 1
                  /\ attempts'[Len(attempts')].key = waiting[i].key
                  /\ attempts'[Len(attempts')].state = "calling"
                  /\ attempts'[Len(attempts')].calls = 1
                  /\ attempts'[Len(attempts')].cause = waiting[i].promise
                  /\ Entry(promiseCache', waiting[i].key).value = Len(attempts')
                  /\ Entry(promiseCache', waiting[i].key).now = now
                  /\ hitRateStatistics'.gotThroughCalls
                         = hitRateStatistics.gotThroughCalls + 1
      ]_vars

\* the second attempt replaced the rejected first one before any time passed,
\* and the call that dispatched it awaits it
C11_Witness ==
    /\ now = 0
    /\ Len(attempts) = 2
    /\ attempts[2].cause = 1
    /\ attempts[2].state = "calling"
    /\ \E i \in 1 .. Len(waiting) : waiting[i].pc = "pending" /\ waiting[i].dispatched = 2

\* C12: failed executions are not cached.  A call of throttled() that starts
\* when the latest producer execution for its key has failed, and no attempt
\* for the key is in progress, calls the producer again: it does not return
\* without having dispatched an attempt, whatever the age of the pending entry.
C12_FailuresNotCached ==
    \A e \in returned : e.afterFailure => e.dispatched # NoPromise

\* the key whose entry was used least recently: the table lists its entries
\* from the most recently used to the least
Oldest(cache) == cache[Len(cache)].key

Full(cache) == Len(cache) = options.maxCachedItems

\* the keys of the table's entries, from the most recently used to the least
KeysOf(cache) == [ i \in 1 .. Len(cache) |-> cache[i].key ]

\* the first n elements of a sequence, or all of it
FirstOf(seq, n) == SubSeq(seq, 1, IF Len(seq) < n THEN Len(seq) ELSE n)

\* the table after a step that used the entry of key: if the table holds the
\* key, the key is the most recently used one and the other keys follow in the
\* order they had, as many as the table has room for; if it does not, the
\* other keys are as they were
UsedIn(before, after, key) ==
    LET others == SelectSeq(KeysOf(before), LAMBDA k : k # key)
    IN  KeysOf(after) = IF Present(after, key)
                        THEN <<key>> \o FirstOf(others, options.maxCachedItems - 1)
                        ELSE others

\* C13: eviction of the least recently used key.  With maxCachedItems = M each
\* table lists its keys by their last use: a call of throttled() for a key
\* uses the key's pending entry when it starts and when it dispatches, and
\* the key's result entry when it returns, which it does not while it is
\* suspended in isRejected; a producer call uses the result
\* entry of its key when it ends; these steps change nothing else of the
\* order, and a table that receives one key more than it has room for loses
\* the key at the end of its list.  When a producer call succeeds for a key
\* that the full result table does not hold, and the pending table holds
\* that key followed by the M - 1 most recently used keys of the result table
\* (as after successful calls, each made when the one before had returned),
\* the key the result table used least recently is in neither table
\* afterwards and the two tables list the same keys.  A call for a key that
\* has no pending entry calls the producer again.
C13_LeastRecentlyUsedEvicted ==
    [][ /\ \A key \in keys :
               Starts(key) =>
                   /\ UsedIn(promiseCache, promiseCache', key)
                   /\ IF waiting' # << >> /\ waiting'[Len(waiting')].pc = "isRejected"
                      THEN resultCache' = resultCache
                      ELSE UsedIn(resultCache, resultCache', key)
                   /\ ~Present(promiseCache, key) =>
                          /\ Len(attempts') = Len(attempts) + 1
                          /\ attempts'[Len(attempts')].key = key
                          /\ attempts'[Len(attempts')].state = "calling"
                          /\ attempts'[Len(attempts')].calls = 1
        /\ \A i \in 1 .. Len(waiting) :
               /\ IsRejectedTrue(i) =>
                      /\ UsedIn(promiseCache, promiseCache', waiting[i].key)
                      /\ UsedIn(resultCache, resultCache', waiting[i].key)
               /\ IsRejectedFalse(i) =>
                      /\ promiseCache' = promiseCache
                      /\ UsedIn(resultCache, resultCache', waiting[i].key)
        /\ \A id \in AttemptIds :
               /\ ProducerReject(id) =>
                      /\ promiseCache' = promiseCache
                      /\ UsedIn(resultCache, resultCache', attempts[id].key)
               /\ RetryFire(id) => promiseCache' = promiseCache /\ resultCache' = resultCache
               /\ \A v \in Resolves(attempts[id].key) :
                      ProducerResolve(id, v) =>
                          /\ promiseCache' = promiseCache
                          /\ UsedIn(resultCache, resultCache', attempts[id].key)
                          /\ /\ Full(resultCache)
                             /\ ~Present(resultCache, attempts[id].key)
                             /\ KeysOf(promiseCache) =
                                    <<attempts[id].key>>
                                        \o FirstOf(KeysOf(resultCache),
                                                   options.maxCachedItems - 1)
                             => /\ ~Present(resultCache', Oldest(resultCache))
                                /\ ~Present(promiseCache', Oldest(resultCache))
                                /\ KeysOf(resultCache') = KeysOf(promiseCache')
      ]_vars

\* maxCachedItems = 2: keys 1 and 2 were called with success, then key 1 again,
\* which was served the stored result, then key 3 with success: key 2, called
\* after key 1 but used less recently, was evicted from both tables; the fifth
\* call, for key 2, has dispatched the fourth attempt
C13_Witness ==
    /\ options.maxCachedItems = 2
    /\ invocations = 5
    /\ [ id \in 1 .. Len(attempts) |-> attempts[id].key ] = <<Key(1), Key(2), Key(3), Key(2)>>
    /\ attempts[4].state = "calling"
    /\ lastExecution = [key \in keys |-> "succeeded"]
    /\ KeysOf(promiseCache) = <<Key(2), Key(3)>>
    /\ promiseCache[1].value = 4
    /\ KeysOf(resultCache) = <<Key(3), Key(1)>>

\* C14: capacity bound.  In every reachable state the pending table holds at
\* most maxCachedItems entries and so does the result table, one entry per key;
\* an entry counts whether or not it has expired, and neither table's bound
\* depends on the other table.
C14_CapacityBound ==
    /\ Len(promiseCache) <= options.maxCachedItems
    /\ Len(resultCache) <= options.maxCachedItems
    /\ Cardinality(Keys(promiseCache)) = Len(promiseCache)
    /\ Cardinality(Keys(resultCache)) = Len(resultCache)

\* both tables are full, with different keys, and the stored result has expired
C14_Witness ==
    /\ Full(promiseCache)
    /\ Full(resultCache)
    /\ Keys(promiseCache) # Keys(resultCache)
    /\ now - resultCache[1].now > cacheMaxAge
    /\ Len(attempts) = 3

\* C15: clearCache() empties the pending table and the result table in one
\* step, and the first call of throttled() started after it for a key it
\* removed calls the producer again: that call does not get past lines 58-62
\* without dispatching an attempt.
C15_ClearCache ==
    /\ [][ clearCache => promiseCache' = << >> /\ resultCache' = << >> ]_vars
    /\ [](\A inv \in Calls :
              inv.afterClear /\ inv.pc # "isRejected" => inv.dispatched # NoPromise)

\* C16: clearCache() cancels nothing.  It leaves every attempt in progress as
\* it is, retries left included, and every suspended call waiting; a producer
\* call that succeeds while the tables hold nothing for its key, as after a
\* clear, writes its value into the result table and gives it to every call
\* awaiting the attempt; and the next call for a cleared key is served that
\* stored value.
C16_ClearDoesNotCancel ==
    [][ /\ clearCache =>
               /\ waiting' = waiting
               /\ \A id \in AttemptIds :
                      \/ attempts[id].state \in {"calling", "waiting"}
                      \/ \E i \in 1 .. Len(waiting) : waiting[i].promise = id
                      => attempts'[id] = attempts[id]
        /\ \A id \in AttemptIds : \A v \in Values :
               /\ ProducerResolve(id, v)
               /\ ~Present(promiseCache, attempts[id].key)
               /\ ~Present(resultCache, attempts[id].key)
               => /\ Present(resultCache', attempts[id].key)
                  /\ Entry(resultCache', attempts[id].key).value = v
                  /\ Entry(resultCache', attempts[id].key).now = now
                  /\ attempts'[id].state = "resolved"
                  /\ attempts'[id].value = v
                  /\ AwaitersReturn(id)
        /\ \A key \in keys :
               /\ InvokeMiss(key)
               /\ key \in cleared
               /\ Unexpired(resultCache, key, cacheMaxAge)
               => \E e \in returned' : /\ e.key = key
                                        /\ e.hit
                                        /\ e.afterClear
                                        /\ e.value = Entry(resultCache, key).value
      ]_vars

\* no call was made for the key since clearCache() emptied the tables, and an
\* attempt dispatched before the clear has now succeeded at its second
\* producer call: its value is stored and the call awaiting it has received it
C16_Witness ==
    /\ cleared = {Key(1)}
    /\ promiseCache = << >>
    /\ Len(resultCache) = 1
    /\ \E e \in returned : /\ e.pc = "returned"
                           /\ ~e.hit
                           /\ e.value = resultCache[1].value
                           /\ attempts[e.promise].calls = 2

\* C17: the result entry of a key is written only by a producer call for that
\* key that succeeds, with that call's value and the current time; it goes
\* away only through clearCache(), through expiry (it was older than
\* cacheMaxAge) or through eviction (the table was full, the key its least
\* recently used, and another key's result was written); a producer call that
\* fails while the entry is unexpired leaves the entry as it was.
C17_ResultWrittenOnSuccess ==
    [][ \A key \in keys :
            /\ /\ Present(resultCache', key)
               /\ ~Present(resultCache, key) \/ Entry(resultCache', key) # Entry(resultCache, key)
               => \E id \in AttemptIds : \E v \in Values :
                      /\ ProducerResolve(id, v)
                      /\ attempts[id].key = key
                      /\ Entry(resultCache', key) = [key |-> key, value |-> v, now |-> now]
            /\ Present(resultCache, key) /\ ~Present(resultCache', key)
               => \/ clearCache
                  \/ now - Entry(resultCache, key).now > cacheMaxAge
                  \/ /\ Full(resultCache)
                     /\ Oldest(resultCache) = key
                     /\ \E id \in AttemptIds : \E v \in Values :
                            ProducerResolve(id, v) /\ attempts[id].key # key
            /\ \A id \in AttemptIds :
                   /\ ProducerReject(id)
                   /\ attempts[id].key = key
                   /\ Unexpired(resultCache, key, cacheMaxAge)
                   => /\ Present(resultCache', key)
                      /\ Entry(resultCache', key) = Entry(resultCache, key)
      ]_vars

\* the latest producer call for the key failed and the call awaiting it was
\* given the stored result, which is still stored with its old time
C17_Witness ==
    \E e \in returned : /\ e.pc = "returned"
                        /\ ~e.hit
                        /\ lastExecution[e.key] = "failed"
                        /\ Present(resultCache, e.key)
                        /\ Entry(resultCache, e.key).value = e.value
                        /\ Entry(resultCache, e.key).now = now - e.age
                        /\ e.age > 0

\* C18: at every report the handler is called with a snapshot in which
\* totalCalls is the number of calls of throttled() started since the previous
\* report and gotThroughCalls the number of those calls that dispatched an
\* attempt; after the handler was called both counters are zero.
C18_HitRateReport ==
    [][ reportHitRate =>
            /\ Len(reports') = Len(reports) + 1
            /\ reports'[Len(reports')] = [ totalCalls |-> window.started,
                                           gotThroughCalls |-> window.passed ]
            /\ hitRateStatistics' = NoCalls
      ]_vars

\* C19: one outcome per pending entry.  The calls of throttled() attached to one
\* pending entry observe the outcome of its promise.  A call that found the
\* pending entry of an attempt in progress and went on to line 59 found that
\* attempt rejected: the calls that awaited the attempt failed with its error,
\* and so does this call.
C19_SameOutcome ==
    \A e \in returned : e.joined /\ e.dispatched # NoPromise => e.pc = "failed"

\* the suspended call i awaits the attempt id, which it dispatched itself
AwaitsOwn(i, id) ==
    /\ waiting[i].pc = "pending"
    /\ waiting[i].promise = id
    /\ waiting[i].dispatched = id

\* C20: a call of throttled() that finds neither a pending entry nor a result
\* for its key dispatches an attempt and does not return before the attempt
\* settles; it then returns the attempt's outcome: the value the producer
\* resolved with when the producer call succeeds, the error when the attempt
\* is rejected.
C20_DispatcherGetsOutcome ==
    [][ /\ \A key \in keys :
               /\ Starts(key)
               /\ ~Present(promiseCache, key)
               /\ ~Present(resultCache, key)
               => /\ returned' = {}
                  /\ Len(attempts') = Len(attempts) + 1
                  /\ Len(waiting') = Len(waiting) + 1
                  /\ waiting'[Len(waiting')].key = key
                  /\ waiting'[Len(waiting')].pc = "pending"
                  /\ waiting'[Len(waiting')].promise = Len(attempts')
                  /\ waiting'[Len(waiting')].dispatched = Len(attempts')
        /\ \A id \in AttemptIds : \A v \in Values :
               ProducerResolve(id, v) =>
                   \A i \in 1 .. Len(waiting) :
                       AwaitsOwn(i, id) =>
                           /\ [ waiting[i] EXCEPT !.pc = "returned", !.value = v, !.age = 0 ]
                                  \in returned'
                           /\ \A j \in 1 .. Len(waiting') : waiting'[j].dispatched # id
        /\ \A id \in AttemptIds :
               attempts[id].state = "calling" /\ attempts'[id].state = "rejected" =>
                   \A i \in 1 .. Len(waiting) :
                       AwaitsOwn(i, id) =>
                           \E e \in returned' : /\ e.pc = "failed"
                                                /\ e.promise = id
                                                /\ e.dispatched = id
      ]_vars

\* the only call made so far found nothing, dispatched the first attempt and
\* has now returned the value 1 the producer resolved with
C20_Witness ==
    /\ Invoked = 1
    /\ cleared = {}
    /\ Len(attempts) = 1
    /\ \E e \in returned : /\ e.pc = "returned"
                           /\ ~e.hit
                           /\ ~e.joined
                           /\ e.dispatched = 1
                           /\ e.promise = 1
                           /\ e.value = 1
                           /\ e.age = 0

\* C25: in every snapshot the hit-rate handler was called with, and in the
\* counters of every reachable state, gotThroughCalls (passedThroughCalls) is
\* at most totalCalls, for any interleaving of calls and reports.
C25_PassedAtMostTotal ==
    /\ hitRateStatistics.gotThroughCalls <= hitRateStatistics.totalCalls
    /\ \A n \in 1 .. Len(reports) :
           reports[n].gotThroughCalls <= reports[n].totalCalls

\* the attempts counted in a sequence of snapshots
RECURSIVE Passed(_)
Passed(snapshots) ==
    IF snapshots = << >> THEN 0
    ELSE Head(snapshots).gotThroughCalls + Passed(Tail(snapshots))

\* the attempts counted so far, in the snapshots and in the current counters
Dispatched == hitRateStatistics.gotThroughCalls + Passed(reports)

\* C27: counter accounting.  Summed over the snapshots the handler was called
\* with and the current counters, totalCalls is the number of calls of
\* throttled() made and gotThroughCalls the number of attempts dispatched.
C27_CounterAccounting ==
    /\ Invoked = invocations
    /\ Dispatched = Len(attempts)

\* the result table holds for the key of attempt id the value that attempt stored
HoldsValueOf(id) ==
    /\ attempts[id].wrote
    /\ Present(resultCache, attempts[id].key)
    /\ Entry(resultCache, attempts[id].key).value = attempts[id].value
    /\ Entry(resultCache, attempts[id].key).now = attempts[id].born

\* attempt id succeeds with v in this step, after an attempt for the same key
\* that was dispatched later has stored its value
OlderCompletesLater(id, v) ==
    /\ ProducerResolve(id, v)
    /\ \E newer \in id + 1 .. Len(attempts) :
           attempts[newer].key = attempts[id].key /\ HoldsValueOf(newer)

\* C24 as stated: when two producer calls for the same key are in flight at
\* once, an older call that completes later never overwrites the value written
\* by a newer call: the result table keeps the value of the most recently
\* dispatched successful call.
C24_NewestDispatchWins ==
    [][ \A id \in AttemptIds : \A v \in Values :
            OlderCompletesLater(id, v)
            => Entry(resultCache', attempts[id].key) = Entry(resultCache, attempts[id].key)
      ]_vars

\* C24, amended: when two producer calls for the same key are in flight at
\* once, the result table ends up holding the value of the call that completed
\* most recently: an older call that completes after a newer one replaces the
\* value the newer call stored, with its own value and completion time.
C24_LastCompletionWins ==
    [][ \A id \in AttemptIds : \A v \in Values :
            OlderCompletesLater(id, v)
            => /\ Present(resultCache', attempts[id].key)
               /\ Entry(resultCache', attempts[id].key) =
                      [key |-> attempts[id].key, value |-> v, now |-> now]
               /\ Len(resultCache') = Len(resultCache)
      ]_vars

\* attempt 2 was dispatched after attempt 1 for the same key and stored 1;
\* attempt 1 has just succeeded with 0, which the result table now holds
C24_Witness ==
    /\ Len(attempts) = 2
    /\ waiting = << >>
    /\ attempts[1].key = attempts[2].key
    /\ attempts[1].wrote /\ attempts[1].value = 0
    /\ attempts[2].wrote /\ attempts[2].value = 1
    /\ Len(promiseCache) = 1 /\ promiseCache[1].value = 2
    /\ Len(resultCache) = 1 /\ resultCache[1].value = 0

\* the values the wrapper holds for key: the result entry of the key in cache
\* and the values of the resolved promises among atts that were made for key
Stored(key, cache, atts) ==
    { cache[i].value : i \in { j \in 1 .. Len(cache) : cache[j].key = key } }
        \cup { atts[id].value :
                   id \in { j \in 1 .. Len(atts) :
                                atts[j].key = key /\ atts[j].state = "resolved" } }

\* the values with which a producer call made for key resolves in this step
Produced(key) ==
    { v \in Values : \E id \in AttemptIds : attempts[id].key = key /\ ProducerResolve(id, v) }

\* C26: provenance.  No value is held for a key before a producer call made
\* for that key has resolved with it: a step adds to the values held for key k
\* only a value with which a producer call for k resolves in that step.  A call
\* of throttled() for k that returns a value returns one of the values held for
\* k or the value just produced for k, and one that fails was given a promise
\* made for k that has rejected or rejects in that step; a promise rejects
\* only in a step in which its own producer call rejects.  So
\* every value returned for k was returned earlier by a producer call for k,
\* and every error is the error of a producer call for k.
C26_Provenance ==
    [][ /\ \A key \in keys :
               /\ \/ Stored(key, resultCache', attempts')
                         \subseteq Stored(key, resultCache, attempts)
                  \/ Stored(key, resultCache', attempts')
                         \subseteq Stored(key, resultCache, attempts) \cup Produced(key)
               /\ \A e \in returned' :
                      e.key = key =>
                          /\ e.pc = "returned"
                                 => \/ e.value \in Stored(key, resultCache, attempts)
                                    \/ e.value \in Produced(key)
                          /\ e.pc = "failed"
                                 => /\ e.promise \in AttemptIds
                                    /\ attempts[e.promise].key = key
                                    /\ \/ attempts[e.promise].state = "rejected"
                                       \/ ProducerReject(e.promise)
        /\ \A id \in AttemptIds :
               attempts'[id].state = "rejected" /\ attempts[id].state # "rejected"
                   => ProducerReject(id)
      ]_vars

\* the producer resolved with 0 for key 1 and with 1 for key 2, and a call for
\* key 2 has just returned the stored 1
C26_Witness ==
    /\ Len(attempts) = 2
    /\ attempts[1].key = Key(1) /\ attempts[2].key = Key(2)
    /\ attempts[2].wrote /\ attempts[2].value = 1
    /\ lastExecution = [key \in keys |-> "succeeded"]
    /\ Stored(Key(1), resultCache, attempts) = {}
    /\ \E e \in returned : e.key = Key(2) /\ e.pc = "returned" /\ e.hit /\ e.value = 1

\* this step belongs to a call of throttled() for key: the call itself, or the
\* attempt it dispatched
StepOf(key) ==
    \/ ReachesReturn(key)
    \/ InvokePending(key)
    \/ \E id \in AttemptIds :
           /\ attempts[id].key = key
           /\ \/ ProducerReject(id)
              \/ RetryFire(id)
              \/ \E v \in Resolves(key) : ProducerResolve(id, v)

\* the entry of key, or its absence, is the same in both tables
Untouched(before, after, key) ==
    /\ Present(after, key) <=> Present(before, key)
    /\ Present(before, key) => Entry(after, key) = Entry(before, key)

\* the table was full and received the entry of key A, which it did not hold,
\* and lost the entry of its least recently used key, B, and no other
Evicts(before, after, A, B) ==
    /\ Full(before)
    /\ ~Present(before, A)
    /\ Present(after, A)
    /\ Oldest(before) = B
    /\ Keys(after) = (Keys(before) \ {B}) \cup {A}

\* a call that settles was served by its own key: the result entry of its key,
\* or a promise made for its key
ServedByOwnKey ==
    \A e \in returned' :
        IF e.hit
        THEN /\ Present(resultCache, e.key)
             /\ e.value = Entry(resultCache, e.key).value
        ELSE /\ e.promise \in AttemptIds
             /\ attempts[e.promise].key = e.key

\* a call for key that finds no live pending entry for key calls the producer
\* for key, whatever the tables hold for the other keys, and no attempt made
\* for another key changes
CallsProducer(key) ==
    Starts(key) /\ ~Unexpired(promiseCache, key, cacheRefreshPeriod)
    => /\ Len(attempts') = Len(attempts) + 1
       /\ attempts'[Len(attempts')].key = key
       /\ attempts'[Len(attempts')].state = "calling"
       /\ \A id \in AttemptIds :
              attempts[id].key # key
              => attempts'[id] \in {attempts[id], collect(attempts, << >>, << >>)[id]}

\* C21 as stated: calls with distinct argument lists are independent.  A step
\* of a call for key A never changes or removes the pending or the result
\* entry of another key B, a call is never served by another key's entry or
\* promise, and a call for B that finds no live pending entry for B calls the
\* producer whatever is held for A.
C21_Independent ==
    [][ /\ \A A \in keys : \A B \in keys \ {A} :
               /\ ~Untouched(promiseCache, promiseCache', B) => ~StepOf(A)
               /\ ~Untouched(resultCache, resultCache', B) => ~StepOf(A)
        /\ ServedByOwnKey
        /\ \A B \in keys : CallsProducer(B)
      ]_vars

\* C21, amended: calls with distinct argument lists are independent up to
\* eviction.  A step of a call for key A changes or removes the pending or the
\* result entry of another key B only by eviction: the table holds
\* maxCachedItems entries, receives the entry of A, which it did not hold, and
\* drops the entry of B, the key it used least recently, and of no other key.
\* A call is never served by another key's entry or promise, and a call for B
\* that finds no live pending entry for B calls the producer whatever is held
\* for A.
C21_IndependentUpToEviction ==
    [][ /\ \A A \in keys : \A B \in keys \ {A} :
               /\ ~Untouched(promiseCache, promiseCache', B) /\ StepOf(A)
                      => Evicts(promiseCache, promiseCache', A, B)
               /\ ~Untouched(resultCache, resultCache', B) /\ StepOf(A)
                      => Evicts(resultCache, resultCache', A, B)
        /\ ServedByOwnKey
        /\ \A B \in keys : CallsProducer(B)
      ]_vars

\* maxCachedItems = 2: keys 1 and 2 were called, key 1 with success and then
\* again, and a call for key 3 has just taken the place of key 2, called after
\* key 1 but used less recently, in the pending table: the attempt for key 2 is
\* still in progress, and the result table holds the entry of key 1 as it was
C21_Witness ==
    /\ options.maxCachedItems = 2
    /\ invocations = 4
    /\ [ id \in 1 .. Len(attempts) |-> attempts[id].key ] = <<Key(1), Key(2), Key(3)>>
    /\ attempts[2].state = "calling"
    /\ attempts[3].state = "calling"
    /\ KeysOf(promiseCache) = <<Key(3), Key(1)>>
    /\ promiseCache[2].value = 1
    /\ KeysOf(resultCache) = <<Key(1)>>
    /\ Len(waiting) = 2

\* C22: argument lists A and B that are deeply equal up to the order of object
\* fields have the same cache key: the keys the wrapper works with, which are
\* the cache keys of the callers' argument lists and never change, are one key
\* for A and B.  So a call with B started within the refresh period of an
\* attempt that a call with A dispatched and that resolved causes no producer
\* call, neither when it starts nor when it goes on after isRejected, and it
\* returns the result stored for A.
C22_DeepEqualSameKey ==
    /\ keys = { cacheKey(args) : args \in arguments }
    /\ \A A \in arguments : \A B \in arguments :
           EqualUpToOrder(A, B) => cacheKey(A) = cacheKey(B)
    /\ [][ /\ arguments' = arguments
           /\ keys' = keys
           /\ \A keyA \in keys : \A keyB \in keys :
                  /\ /\ Starts(keyB)
                     /\ ResolvedEntry(keyA)
                     /\ now - Entry(promiseCache, keyA).now < cacheRefreshPeriod
                     => Len(attempts') = Len(attempts)
                  /\ \A i \in 1 .. Len(waiting) :
                         /\ waiting[i].key = keyB
                         /\ IsRejectedFalse(i)
                         /\ ResolvedEntry(keyA)
                         /\ Unexpired(resultCache, keyA, cacheMaxAge)
                         => /\ Len(attempts') = Len(attempts)
                            /\ \E e \in returned' :
                                   /\ e.hit
                                   /\ e.value = Entry(resultCache, keyA).value
      ]_vars

\* the callers use {a: .., b: ..} and {b: .., a: ..}: two calls were made, the
\* producer was called once and resolved, and the second call has just
\* returned the stored result without a producer call
C22_Witness ==
    /\ Cardinality(arguments) = 2
    /\ \E A \in arguments : \E B \in arguments :
           /\ A # B
           /\ A[1].type = "object" /\ Len(A[1].fields) = 2
           /\ stringify(A) = stringify(B)
    /\ now = 0
    /\ Invoked = 2
    /\ Len(attempts) = 1
    /\ attempts[1].wrote /\ attempts[1].calls = 1
    /\ \E e \in returned :
           e.hit /\ e.dispatched = NoPromise /\ e.value = attempts[1].value

\* C23: liveness.  If every call of the producer settles, every call of
\* throttled() settles: whenever calls are suspended, a state follows in which
\* none of them is, whatever calls, retries, ticks of the clock and clearCache
\* calls come in between.
C23_EveryCallSettles == (waiting # << >>) ~> (waiting = << >>)

\* two calls awaited one attempt through its retry and failed together when
\* its second producer call rejected; no call is left suspended
C23_Witness ==
    /\ waiting = << >>
    /\ Cardinality(returned) = 2
    /\ \A e \in returned :
           e.pc = "failed" /\ e.promise = 1 /\ attempts[1].calls = 2

====
